---- MODULE Spec2Model ----
(***************************************************************************)
(* bot_020.py: three cooperative asyncio loops (universe refresh, kline    *)
(* refresh, price poll) sharing one in-memory state dict `st`.             *)
(*                                                                         *)
(* Scheduling: asyncio is single threaded, a task runs from one await to   *)
(* the next without interruption.  Every action below is "an await of      *)
(* task X completes with some result, X runs up to its next await".  The   *)
(* one exception is the price loop's "hs" position (entry of               *)
(* handle_signals for the next item of the price map), which is not an     *)
(* await: while the price loop is there no other task may step (Quiet).    *)
(*                                                                         *)
(* Prices and levels are integers (exact arithmetic, one unit = one tick). *)
(* Chart rendering and the text of notifications are not modelled; a       *)
(* fetch+render or a send either completes or raises.                      *)
(***************************************************************************)
EXTENDS Integers, Sequences, FiniteSets, TLC

\* Python's None.  Every open_time, price and level of the model is >= 1, so
\* 0 is free to stand for it; like None it is falsy.
None == 0

\* ---------------------------------------------------------------- bounds
MaxT4 == 2              \* 4h candles have open_time 1..MaxT4
PriceHi == 202          \* polled prices are 197..PriceHi
MaxTickers == 4         \* the 24hr ticker list has at most MaxTickers items
TOP_N == 2              \* TOP_N of get_top_gainers (50 unless configured)
MaxNow == 2             \* bot_3m_muboh: the clock advances MaxNow times
MaxCandles == 7         \* find_setup_levels gets at most MaxCandles klines
LOOKBACK_FOR_HIGH == 2  \* LOOKBACK_FOR_HIGH (20 unless configured)

\* ------------------------------------------------------- program constants
NEAR_PCT == 1           \* NEAR_PCT = 0.01, in percent
SYMBOL_COOLDOWN_MIN == 60   \* bot_3m_muboh, minutes
MIN_PULLBACK_CANDLES == 1   \* bot_3m_muboh

AllSymbols == {"A", "B"}
Intervals == <<"1w", "1d", "4h", "15m">>

\* What the exchange can answer, of which kinds of photo the history of sent
\* photos is kept (log) and which fields of the history `hist` are kept
\* (track).  stuck: the <<symbol, interval>> kline fetches that raise on every
\* attempt; sure: those that return a full answer on every attempt.
\* CoreWorld: one symbol, rich candle data.  LoopWorld and WideWorld: one and
\* two symbols, one candle per interval.
CoreWorld ==
    [syms |-> {"A"}, t4 |-> 1..MaxT4, highs |-> {200, 202},
     t15 |-> {1, 2}, lows |-> {199, 201}, prices |-> 197..PriceHi,
     log |-> {}, track |-> {}, stuck |-> {}, sure |-> {}]

LogWorld ==
    [CoreWorld EXCEPT !.log = {"NEAR", "BREAK"}, !.t15 = {1}, !.lows = {201}]

LoopWorld ==
    [syms |-> {"A"}, t4 |-> {1}, highs |-> {200},
     t15 |-> {1}, lows |-> {200}, prices |-> {199, 200}, log |-> {},
     track |-> {"dirty"}, stuck |-> {}, sure |-> {}]

WideWorld ==
    [syms |-> {"A", "B"}, t4 |-> {1}, highs |-> {200},
     t15 |-> {1}, lows |-> {200}, prices |-> {199, 200}, log |-> {},
     track |-> {"k_last"}, stuck |-> {}, sure |-> {}]

\* CoreWorld with one 15m candle; the 4h candles the kline loop sees are kept
SeenWorld ==
    [CoreWorld EXCEPT !.track = {"k_last", "seen4h"}, !.t15 = {1},
                      !.lows = {201}]

\* One 4h candle and one 15m candle, the history of sent photos kept
CrashWorld ==
    [syms |-> {"A"}, t4 |-> {1}, highs |-> {200},
     t15 |-> {1}, lows |-> {199}, prices |-> {198, 200},
     log |-> {"NEAR", "BREAK", "SELL"},
     track |-> {}, stuck |-> {}, sure |-> {}]

\* WideWorld where the 1d fetch for A raises on every attempt and the 4h fetch
\* for A answers in full on every attempt
StarveWorld ==
    [WideWorld EXCEPT !.track = {}, !.stuck = {<<"A", "1d">>},
                      !.sure = {<<"A", "4h">>}]

\* WideWorld for the price loop: the price map of each tick is kept
TickWorld == [WideWorld EXCEPT !.track = {"p_map"}]

\* ---------------------------------------------------------------- state
VARIABLES
    symbols,        \* st["symbols"]: symbol -> per-symbol dict
    top_symbols,    \* st["top_symbols"]
    cache,          \* kline cache entries younger than REFRESH_KLINES_SEC
    disk,           \* content of STATE_FILE (last save_state)
    alive,          \* the process is running (asyncio.gather has not raised)
    pc,             \* per task: the await it is suspended at
    k_syms, k_i, k_tf,   \* loop_refresh_klines: syms, position in it, interval
    p_syms, p_items,     \* loop_prices: syms, items of price_map still to do
    hs,             \* handle_signals locals: last4h_high, last4h_open
    sentLog,        \* history: <<symbol, kind, epoch>> of every photo sent
    obs,            \* history, per symbol: what was observed since the rearm
    hist,           \* history of the current tick of each loop, see NoHist
    fs,             \* save_state in detail: STATE_FILE and STATE_FILE.tmp
    sv,             \* save_state in detail: the call in progress
    tk_data,        \* get_top_gainers alone: the 24hr ticker list it receives
    tk_out,         \* get_top_gainers alone: what it returned
    env,            \* the environment variables the process is started with
    boot,           \* which program the process runs and how far it has come
    m_file,         \* bot_3m_muboh: content of its STATE_FILE
    m_now,          \* bot_3m_muboh: time.time(), in minutes
    m_msg,          \* bot_3m_muboh: on_message, the symbol its send is about
    m_scan,         \* bot_3m_muboh: periodic_scan, its locals while it awaits
    m_ran,          \* bot_3m_muboh, history: the callbacks that were entered
    m_hist,         \* bot_3m_muboh, history per symbol, see NoMHist
    kl,             \* find_setup_levels alone: the klines it receives
    fsl             \* find_setup_levels alone: what it returned

\* The three loops of bot_020
bot == <<symbols, top_symbols, cache, disk, alive, pc, k_syms, k_i, k_tf,
         p_syms, p_items, hs, sentLog, obs, hist>>

\* save_state in detail; the loops of bot_020 write STATE_FILE in one step
\* (disk) and leave these alone.
save == <<fs, sv>>

\* get_top_gainers on its own
gainers == <<tk_data, tk_out>>

\* The start of the process
startup == <<env, boot>>

\* The handler and the job of bot_3m_muboh
muboh == <<m_file, m_now, m_msg, m_scan, m_ran, m_hist>>

\* find_setup_levels on its own
setup == <<kl, fsl>>

rest == <<startup, muboh, setup>>

aux == <<save, gainers, rest>>

vars == <<bot, aux>>

\* ------------------------------------------------------------ pure code
Truthy(x) == x # 0      \* `not x` is true of None and of 0

NewSymState ==
    [last_1d_closed_open |-> None, last_1w_closed_open |-> None,
     last_4h_closed_open |-> None, last_15m_closed_open |-> None,
     last_4h_high |-> None, last_15m_low |-> None,
     near_sent_for_4h |-> None, break_sent_for_4h |-> None,
     upmove_active |-> FALSE, upmove_started_4h |-> None,
     sell_sent_15m |-> None, sell_once_done_for_break |-> None]

\* sym_state assigning a new dict where it should setdefault
sym_state_Assign(reg, s) ==
    [x \in DOMAIN reg \cup {s} |-> IF x = s THEN NewSymState ELSE reg[x]]

\* sym_state(st, symbol): the registry with the symbol's dict created if absent
sym_state(reg, s) ==
    IF s \in DOMAIN reg THEN reg ELSE reg @@ (s :> NewSymState)

Candle(t, h, l) == [open_time |-> t, high |-> h, low |-> l]

\* last_closed(candles): raises ValueError below two candles, else candles[-2]
NotEnoughCandles(candles) == Len(candles) < 2

last_closed(candles) == candles[Len(candles) - 1]

\* InNear without the upper bound
InNear_NoUpper(price, high) == price * 100 >= high * (100 - NEAR_PCT)

\* InNear with the upper bound included (<= for <)
InNear_Inclusive(price, high) ==
    price * 100 >= high * (100 - NEAR_PCT) /\ price <= high

\* price >= last4h_high * (1.0 - NEAR_PCT) and price < last4h_high
InNear(price, high) ==
    price * 100 >= high * (100 - NEAR_PCT) /\ price < high

Range(f) == {f[i] : i \in DOMAIN f}

Pairs(S) == {ab \in S \X S : ab[1] # ab[2]}

\* get_price_map: the entries of the ticker list whose symbol is wanted
get_price_map(data, wanted) ==
    SelectSeq(data, LAMBDA x : x[1] \in Range(wanted))

\* save_state(st)
Snapshot(reg, top) == [symbols |-> reg, top_symbols |-> top]

\* price is in the near band of level: level*(1 - NEAR_PCT) <= price < level
InBand(price, level) ==
    100 * price >= (100 - NEAR_PCT) * level /\ price < level

\* History of a symbol's watch.  Since the last rearm of its 4h watch: band, a
\* price in the near band was observed; brk, a price >= level was observed;
\* kept, a refresh saw the 4h candle unchanged.  sold: SELL fired since the
\* last BREAK; prevSold: SELL had fired for the BREAK before the last one.
InitObs ==
    [band |-> FALSE, brk |-> FALSE, kept |-> FALSE, sold |-> FALSE,
     prevSold |-> FALSE]

Tasks == {"T", "K", "P"}

\* History of the loops' current ticks.  k_last: how the last step of the
\* kline loop ended ("ok", "fetch_raised": get_klines or last_closed raised,
\* "send_raised"); seen4h: the last closed 4h candle the kline loop processed;
\* dirty: the loop has written to st since it woke up; p_map: the price map
\* the price loop fetched in this tick.
NoCandle == [open_time |-> 0, high |-> 0, low |-> 0]

NoHist ==
    [k_last |-> "", seen4h |-> NoCandle, dirty |-> [t \in Tasks |-> FALSE],
     p_map |-> <<>>]

\* The history after a step: of the fields the world keeps, those named in
\* upd take the value given there
Keep(W, upd, f) == IF f \in W.track /\ f \in DOMAIN upd THEN upd[f] ELSE hist[f]

Hist(W, upd) ==
    [k_last |-> Keep(W, upd, "k_last"), seen4h |-> Keep(W, upd, "seen4h"),
     dirty |-> Keep(W, upd, "dirty"), p_map |-> Keep(W, upd, "p_map")]

Dirty(t, b) == [hist.dirty EXCEPT ![t] = b]

\* ------------------------------------------------- what the exchange answers
\* A kline answer: the call raised (ok = FALSE) or a list of candles whose last
\* element is the forming candle.
ClosedCandles(W, interval) ==
    CASE interval = "4h" -> {Candle(t, h, h) : t \in W.t4, h \in W.highs}
      [] interval = "15m" -> {Candle(t, l, l) : t \in W.t15, l \in W.lows}
      [] OTHER -> {Candle(1, h, h) : h \in {200}}

Forming(c) == Candle(c.open_time + 1, c.high, c.low)

KlineReplies(W, s, interval) ==
    LET raised == {[ok |-> FALSE, candles |-> <<>>]}
        short == {[ok |-> TRUE, candles |-> <<Forming(c)>>] :
                     c \in ClosedCandles(W, "1w")}
        full == {[ok |-> TRUE, candles |-> <<c, Forming(c)>>] :
                    c \in ClosedCandles(W, interval)}
    IN  IF <<s, interval>> \in W.stuck THEN raised
        ELSE IF <<s, interval>> \in W.sure THEN full
        ELSE raised \cup short \cup full

\* -------------------------------------------------------- get_top_gainers
\* A symbol is the sequence of its characters.
USDT == <<"U", "S", "D", "T">>

\* The symbols of the exchange, in the order of its ticker list: three plain
\* USDT pairs, JUPUSDT (spot), a pair not quoted in USDT, the two stable
\* pairs and one leveraged token per pattern of the denylist.
Listing ==
    << <<"B", "T", "C">> \o USDT, <<"E", "T", "H">> \o USDT,
       <<"L", "T", "C">> \o USDT,
       <<"J", "U", "P">> \o USDT,
       <<"E", "T", "H", "B", "T", "C">>,
       <<"B", "U", "S", "D">> \o USDT, <<"U", "S", "D", "C">> \o USDT,
       <<"B", "T", "C", "U", "P">> \o USDT,
       <<"B", "T", "C", "D", "O", "W", "N">> \o USDT,
       <<"E", "T", "H", "B", "U", "L", "L">> \o USDT,
       <<"E", "T", "H", "B", "E", "A", "R">> \o USDT >>

\* priceChangePercent of an item: the text of a number, absent or empty, or a
\* text float() rejects
Num(n) == [kind |-> "num", val |-> n]
Missing == [kind |-> "none", val |-> 0]
Garbage == [kind |-> "text", val |-> 0]
Pcts == {Num(5), Num(0 - 3), Missing, Garbage}

RECURSIVE Ascending(_)
Ascending(S) ==
    IF S = {} THEN <<>>
    ELSE LET m == CHOOSE x \in S : \A y \in S : x <= y
         IN  <<m>> \o Ascending(S \ {m})

\* A ticker list: the items S of the listing, in its order, with the percent
\* changes f; S has up to MaxTickers elements
TickerData(S, f) ==
    LET at == Ascending(S)
    IN  [i \in 1..Len(at) |->
            [symbol |-> Listing[at[i]], priceChangePercent |-> f[at[i]]]]

TickerChoices ==
    {S \in SUBSET (1..Len(Listing)) : Cardinality(S) <= MaxTickers}

\* sym.endswith(suffix)
EndsWith(sym, suffix) ==
    /\ Len(sym) >= Len(suffix)
    /\ SubSeq(sym, Len(sym) - Len(suffix) + 1, Len(sym)) = suffix

\* part in sym
Contains(sym, part) ==
    \E i \in 1..(Len(sym) - Len(part) + 1) :
        SubSeq(sym, i, i + Len(part) - 1) = part

\* The two `continue` of the denylist
Denylisted(sym) ==
    \/ EndsWith(sym, <<"B", "U", "S", "D">> \o USDT)
    \/ EndsWith(sym, <<"U", "S", "D", "C">> \o USDT)
    \/ Contains(sym, <<"U", "P">> \o USDT)
    \/ Contains(sym, <<"D", "O", "W", "N">> \o USDT)
    \/ Contains(sym, <<"B", "U", "L", "L">> \o USDT)
    \/ Contains(sym, <<"B", "E", "A", "R">> \o USDT)

\* float(x.get("priceChangePercent", "0") or "0") raises / returns
Unparsable(p) == p.kind = "text"

ParsePct(p) == IF p.kind = "num" THEN p.val ELSE 0

\* InsertByPct for a sort without reverse=True
InsertByPct_Ascending(sorted, e) ==
    LET k == Cardinality({i \in 1..Len(sorted) : sorted[i][2] <= e[2]})
    IN  SubSeq(sorted, 1, k) \o <<e>> \o SubSeq(sorted, k + 1, Len(sorted))

\* usdt.sort(key=lambda t: t[1], reverse=True) is stable: e goes behind the
\* elements whose pct is not smaller
InsertByPct(sorted, e) ==
    LET k == Cardinality({i \in 1..Len(sorted) : sorted[i][2] >= e[2]})
    IN  SubSeq(sorted, 1, k) \o <<e>> \o SubSeq(sorted, k + 1, Len(sorted))

RECURSIVE SortByPct(_)
SortByPct(usdt) ==
    IF usdt = <<>> THEN <<>>
    ELSE InsertByPct(SortByPct(SubSeq(usdt, 1, Len(usdt) - 1)),
                     usdt[Len(usdt)])

get_top_gainers(data, top_n) ==
    LET kept == SelectSeq(data, LAMBDA x :
                    /\ EndsWith(x.symbol, USDT)
                    /\ ~Denylisted(x.symbol)
                    /\ ~Unparsable(x.priceChangePercent))
        usdt == [i \in 1..Len(kept) |->
                    <<kept[i].symbol, ParsePct(kept[i].priceChangePercent)>>]
        sorted == SortByPct(usdt)
        n == IF Len(sorted) < top_n THEN Len(sorted) ELSE top_n
    IN  [i \in 1..n |-> sorted[i][1]]

\* get_top_gainers has not been called
TopIdle == tk_data = <<>> /\ tk_out = [done |-> FALSE, syms |-> <<>>]

\* get_top_gainers(session, TOP_N) on the ticker list tk_data
TopGainers ==
    /\ ~tk_out.done
    /\ tk_out' = [done |-> TRUE, syms |-> get_top_gainers(tk_data, TOP_N)]
    /\ UNCHANGED <<bot, save, tk_data, rest>>

\* ------------------------------------------- save_state and load_state
\* The same two functions in bot_020.py (59-76) and bot_3m_muboh.py (38-51).
\* A file is absent or holds a text, a sequence of chunks; json.dump writes
\* the text of st chunk by chunk, a crash leaves what was written so far.
FileNames == {"STATE_FILE", "STATE_FILE.tmp"}

NoFile == [exists |-> FALSE, text |-> <<>>]

File(text) == [exists |-> TRUE, text |-> text]

\* save_state writing into STATE_FILE itself
tmp_InPlace == "STATE_FILE"

\* tmp = STATE_FILE + ".tmp"
tmp == "STATE_FILE.tmp"

\* json.dump(st, f, ensure_ascii=False, indent=2): the text written
dumps(st) ==
    <<"{", <<"symbols", st.symbols>>, <<"top_symbols", st.top_symbols>>, "}">>

\* json.load(f) returns, does not raise
Parses(text) == Len(text) = 4 /\ text[1] = "{" /\ text[4] = "}"

loads(text) == [symbols |-> text[2][2], top_symbols |-> text[3][2]]

\* What load_state returns when STATE_FILE is absent or does not parse
DefaultState == Snapshot([s \in {} |-> NewSymState], <<>>)

load_state(files) ==
    IF files["STATE_FILE"].exists /\ Parses(files["STATE_FILE"].text)
    THEN loads(files["STATE_FILE"].text)
    ELSE DefaultState

\* os.replace(src, dst)
os_replace(files, from, to) ==
    IF from = to THEN files
    ELSE [files EXCEPT ![to] = files[from], ![from] = NoFile]

\* The states save_state is called with
SaveInputs ==
    {Snapshot(r, t) :
        r \in {[s \in {} |-> NewSymState], [s \in {"A"} |-> NewSymState]},
        t \in {<<>>, <<"A">>, <<"A", "B">>}}

\* No state file yet, no save_state in progress.  sv.at is the position of
\* the call ("idle": none, "down": the process has crashed); committed is the
\* argument of the last save_state that returned, loaded what the last
\* load_state returned (both history).
SaveIdle ==
    /\ fs = [n \in FileNames |-> NoFile]
    /\ sv = [at |-> "idle", st |-> DefaultState, committed |-> DefaultState,
             loaded |-> DefaultState]

\* A loop reaches save_state(st)
SaveCall(st) ==
    /\ sv.at = "idle"
    /\ sv' = [sv EXCEPT !.at = "open", !.st = st]
    /\ UNCHANGED <<bot, fs, gainers, rest>>

\* open(tmp, "w"): the file is created or truncated
SaveOpen ==
    /\ sv.at = "open"
    /\ fs' = [fs EXCEPT ![tmp] = File(<<>>)]
    /\ sv' = [sv EXCEPT !.at = "dump"]
    /\ UNCHANGED <<bot, gainers, rest>>

\* json.dump writes the next chunk; after the last one the file is closed
SaveDump ==
    /\ sv.at = "dump"
    /\ LET text == fs[tmp].text
           more == Append(text, dumps(sv.st)[Len(text) + 1])
       IN
       /\ fs' = [fs EXCEPT ![tmp] = File(more)]
       /\ sv' = [sv EXCEPT !.at = IF more = dumps(sv.st) THEN "replace"
                                  ELSE "dump"]
    /\ UNCHANGED <<bot, gainers, rest>>

\* os.replace(tmp, STATE_FILE), save_state returns
SaveReplace ==
    /\ sv.at = "replace"
    /\ fs' = os_replace(fs, tmp, "STATE_FILE")
    /\ sv' = [sv EXCEPT !.at = "idle", !.committed = sv.st]
    /\ UNCHANGED <<bot, gainers, rest>>

\* The process dies, at any point
SaveCrash ==
    /\ sv.at # "down"
    /\ sv' = [sv EXCEPT !.at = "down"]
    /\ UNCHANGED <<bot, fs, gainers, rest>>

\* The process is started again: main() calls load_state()
SaveRestart ==
    /\ sv.at = "down"
    /\ sv' = [sv EXCEPT !.at = "idle", !.loaded = load_state(fs)]
    /\ UNCHANGED <<bot, fs, gainers, rest>>

SaveStep ==
    \/ \E st \in SaveInputs : SaveCall(st)
    \/ SaveOpen
    \/ SaveDump
    \/ SaveReplace
    \/ SaveCrash
    \/ SaveRestart

\* ------------------------------------------------- environment and start
\* os.getenv gives None for a variable that is not set and `or ""` turns it
\* into "", so "" stands for both; " " is a value of blanks only.
EnvTokens == {"", " ", "tok"}
EnvChats == {"", " ", "7"}

\* str.strip()
strip(v) == IF v = " " THEN "" ELSE v

\* The environment with everything set
FullEnv ==
    [TELEGRAM_BOT_TOKEN |-> "tok", TELEGRAM_CHAT_ID |-> "7",
     BOT_TOKEN |-> "tok", ADMIN_DM_CHAT_ID |-> "7"]

Programs == {"bot_020", "bot_3m_muboh"}

At(prog, at) == boot = [prog |-> prog, at |-> at]

\* bot_020, with its loops running, is all there is
StartupIdle == env = FullEnv /\ At("bot_020", "running")

\* ----------------------------------------------------------- bot_3m_muboh
\* ADMIN_DM_CHAT_ID = int((os.getenv("ADMIN_DM_CHAT_ID") or "0").strip());
\* int("") raises ValueError
ChatIdText == strip(IF env.ADMIN_DM_CHAT_ID = "" THEN "0"
                    ELSE env.ADMIN_DM_CHAT_ID)

ADMIN_DM_CHAT_ID == IF ChatIdText = "0" THEN 0 ELSE 7

BOT_TOKEN == strip(env.BOT_TOKEN)

MSyms == {"LTCUSDT", "XRPUSDT"}

\* A text message that is not a MUBOH post of the muboh bot, or has no ticker
NoTicker == ""

\* The dataclass SymbolState; the symbol is the key it is stored under
SymbolState(active, last_muboh_ts) ==
    [active |-> active, last_muboh_ts |-> last_muboh_ts, bought |-> FALSE,
     buy_level |-> 0, trail_low |-> 0, last_signal_ts |-> 0]

\* {"symbols": {}}: what load_state returns without a state file.  keys is
\* the order of the dict.
NoSymbols == [keys |-> <<>>, symbols |-> [s \in {} |-> SymbolState(FALSE, 0)]]

Items(seq) == {seq[i] : i \in 1..Len(seq)}

Keys(state) == Items(state.keys)

\* symbols[symbol] = asdict(st)
Put(state, sym, st) ==
    [keys |-> IF sym \in Keys(state) THEN state.keys
              ELSE Append(state.keys, sym),
     symbols |-> [s \in Keys(state) \cup {sym} |->
                    IF s = sym THEN st ELSE state.symbols[s]]]

\* The cooldown test of on_message
InCooldown(state, sym, now) ==
    /\ sym \in Keys(state)
    /\ now - state.symbols[sym].last_muboh_ts < SYMBOL_COOLDOWN_MIN

\* What get_klines and get_last_price give run_analysis_and_maybe_signal: an
\* exception (ok FALSE, also for fewer than two candles), or the level of
\* find_setup_levels (None without a setup), the low of the last closed
\* candle and the last price.
MReplies ==
    {[ok |-> FALSE, setup |-> None, low |-> 0, price |-> 0]}
      \cup [ok : {TRUE}, setup : {None, 10}, low : {8}, price : {7, 9, 11}]

\* run_analysis_and_maybe_signal up to its send_message, if any: the new st
\* and the signal to send
run_analysis(st, r, now) ==
    IF ~r.ok THEN [st |-> st, sig |-> "none"]
    ELSE IF ~st.bought
    THEN IF r.setup = None THEN [st |-> st, sig |-> "none"]
         ELSE IF r.price > r.setup
         THEN [st |-> [st EXCEPT !.buy_level = r.setup, !.bought = TRUE,
                                 !.trail_low = r.low,
                                 !.last_signal_ts = now],
               sig |-> "BUY"]
         ELSE [st |-> [st EXCEPT !.buy_level = r.setup], sig |-> "none"]
    ELSE IF r.price < r.low
    THEN [st |-> [st EXCEPT !.trail_low = r.low, !.bought = FALSE,
                            !.buy_level = 0, !.last_signal_ts = now],
          sig |-> "SELL"]
    ELSE [st |-> [st EXCEPT !.trail_low = r.low], sig |-> "none"]

NoScan ==
    [at |-> "idle", state |-> NoSymbols, todo |-> <<>>, changed |-> FALSE,
     sym |-> NoTicker, st |-> SymbolState(FALSE, 0), sig |-> "none"]

\* History per symbol.  reg: time.time() of the last registration on_message
\* has saved (0: none); ack: the send_message after it has completed; sig: the
\* last two signals whose send_message has completed, oldest first.
NoMHist ==
    [reg |-> [s \in MSyms |-> 0], ack |-> [s \in MSyms |-> FALSE],
     sig |-> [s \in MSyms |-> <<"none", "none">>]]

\* Which fields of m_hist a specification keeps
StartView == [track |-> {}]
RegView == [track |-> {"reg", "ack"}]
SigView == [track |-> {"sig"}]

\* m_hist with the fields of upd that V keeps
MHist(V, upd) ==
    [f \in DOMAIN m_hist |->
        IF f \in V.track /\ f \in DOMAIN upd THEN upd[f] ELSE m_hist[f]]

\* The for loop of periodic_scan from the item Head(todo) on, up to the
\* next send_message or to the end of the list: nothing else runs meanwhile.
RECURSIVE ScanLoop(_, _, _, _, _)
ScanLoop(state, todo, changed, replies, now) ==
    IF todo = <<>>
    THEN [NoScan EXCEPT !.at = "done", !.state = state, !.changed = changed]
    ELSE LET sym == Head(todo)
             st == state.symbols[sym]
             a == run_analysis(st, replies[sym], now)
         IN  IF ~st.active
             THEN ScanLoop(state, Tail(todo), changed, replies, now)
             ELSE IF a.sig # "none"
             THEN [at |-> "await_send", state |-> state,
                   todo |-> Tail(todo), changed |-> changed,
                   sym |-> sym, st |-> a.st, sig |-> a.sig]
             ELSE ScanLoop(Put(state, sym, a.st), Tail(todo), TRUE,
                           replies, now)

\* periodic_scan goes on to r: it awaits a send, or it is through the list
\* and saves if anything was analysed
ScanTo(r) ==
    IF r.at = "await_send"
    THEN m_scan' = r /\ UNCHANGED m_file
    ELSE /\ m_scan' = NoScan
         /\ m_file' = IF r.changed THEN r.state ELSE m_file

MubohIdle ==
    /\ m_file = NoSymbols
    /\ m_now = SYMBOL_COOLDOWN_MIN
    /\ m_msg = NoTicker
    /\ m_scan = NoScan
    /\ m_ran = {}
    /\ m_hist = NoMHist

\* The module is imported: lines 14-15 read the environment, nothing tests
\* the values; int() of a blank ADMIN_DM_CHAT_ID raises ValueError.
MImport ==
    /\ At("bot_3m_muboh", "import")
    /\ boot' = [boot EXCEPT !.at =
                  IF ChatIdText = "" THEN "aborted" ELSE "main"]
    /\ UNCHANGED <<bot, save, gainers, setup, env, muboh>>

\* main(): Application.builder().token(BOT_TOKEN).build() (the library
\* refuses an empty token with InvalidToken), add_handler, run_repeating,
\* initialize, start, start_polling
MMain ==
    /\ At("bot_3m_muboh", "main")
    /\ boot' = [boot EXCEPT !.at =
                  IF BOT_TOKEN = "" THEN "aborted" ELSE "running"]
    /\ UNCHANGED <<bot, save, gainers, setup, env, muboh>>

\* Time passes
MTick ==
    /\ At("bot_3m_muboh", "running")
    /\ m_now < SYMBOL_COOLDOWN_MIN + MaxNow * (SYMBOL_COOLDOWN_MIN \div 2)
    /\ m_now' = m_now + SYMBOL_COOLDOWN_MIN \div 2
    /\ UNCHANGED <<bot, save, gainers, setup, startup, m_file, m_msg, m_scan, m_ran,
                   m_hist>>

\* on_message up to its send_message; m is the symbol of the MUBOH post
OnMessage(V, m) ==
    /\ At("bot_3m_muboh", "running")
    /\ m_msg = NoTicker
    /\ m_ran' = m_ran \cup {"on_message"}
    /\ IF m = NoTicker \/ InCooldown(m_file, m, m_now)
       THEN UNCHANGED <<m_file, m_msg, m_hist>>
       ELSE /\ m_file' = Put(m_file, m, SymbolState(TRUE, m_now))
            /\ m_msg' = m
            /\ m_hist' = MHist(V, [reg |-> [m_hist.reg EXCEPT ![m] = m_now],
                                   ack |-> [m_hist.ack EXCEPT ![m] = FALSE]])
    /\ UNCHANGED <<bot, save, gainers, setup, startup, m_now, m_scan>>

\* send_message of on_message completes (ok) or raises
OnMessageSent(V, ok) ==
    /\ At("bot_3m_muboh", "running")
    /\ m_msg # NoTicker
    /\ m_msg' = NoTicker
    /\ m_hist' = MHist(V, [ack |-> [m_hist.ack EXCEPT ![m_msg] = ok]])
    /\ UNCHANGED <<bot, save, gainers, setup, startup, m_file, m_now, m_scan, m_ran>>

\* The job runs periodic_scan, up to its first send_message
ScanStart(replies) ==
    /\ At("bot_3m_muboh", "running")
    /\ m_scan.at = "idle"
    /\ m_ran' = m_ran \cup {"periodic_scan"}
    /\ IF ADMIN_DM_CHAT_ID = 0 \/ m_file.keys = <<>>
       THEN UNCHANGED <<m_file, m_scan>>
       ELSE ScanTo(ScanLoop(m_file, m_file.keys, FALSE, replies, m_now))
    /\ UNCHANGED <<bot, save, gainers, setup, startup, m_now, m_msg, m_hist>>

\* send_message of run_analysis_and_maybe_signal completes (the loop goes
\* on) or raises (nothing catches it: this run of the job ends, unsaved)
ScanSent(V, ok, replies) ==
    /\ At("bot_3m_muboh", "running")
    /\ m_scan.at = "await_send"
    /\ IF ok
       THEN ScanTo(ScanLoop(Put(m_scan.state, m_scan.sym, m_scan.st),
                            m_scan.todo, TRUE, replies, m_now))
       ELSE m_scan' = NoScan /\ UNCHANGED m_file
    /\ m_hist' = IF ok
                 THEN MHist(V, [sig |-> [m_hist.sig EXCEPT ![m_scan.sym] =
                                            <<@[2], m_scan.sig>>]])
                 ELSE m_hist
    /\ UNCHANGED <<bot, save, gainers, setup, startup, m_now, m_msg, m_ran>>

MStep(V) ==
    \/ MImport
    \/ MMain
    \/ MTick
    \/ \E m \in MSyms \cup {NoTicker} : OnMessage(V, m)
    \/ \E ok \in BOOLEAN : OnMessageSent(V, ok)
    \/ \E replies \in [Keys(m_file) -> MReplies] : ScanStart(replies)
    \/ \E ok \in BOOLEAN, replies \in [Items(m_scan.todo) -> MReplies] :
          ScanSent(V, ok, replies)

\* ------------------------------------------------------ find_setup_levels
\* A kline, of which find_setup_levels reads open, high, low and close: two
\* bullish and two bearish candles with highs 3 and 4, and a bullish candle
\* that closes above the others.
Klines ==
    {[open |-> 1, high |-> 3, low |-> 0, close |-> 2],
     [open |-> 2, high |-> 3, low |-> 1, close |-> 1],
     [open |-> 1, high |-> 4, low |-> 0, close |-> 2],
     [open |-> 2, high |-> 4, low |-> 1, close |-> 1],
     [open |-> 2, high |-> 4, low |-> 1, close |-> 3]}

\* return None
NoSetup == [found |-> FALSE, buy_level |-> 0, pullback_low_ref |-> 0]

\* Index of kl[-2], the last closed candle (indices start at 1 here)
LastClosed(k) == Len(k) - 1

\* First index of the lookback window
WindowStart(k) ==
    IF LastClosed(k) - LOOKBACK_FOR_HIGH > 1
    THEN LastClosed(k) - LOOKBACK_FOR_HIGH ELSE 1

\* start + window_highs.index(max(window_highs)): the first of the highest
IdxHigh(k) ==
    CHOOSE i \in WindowStart(k)..LastClosed(k) :
        /\ \A j \in WindowStart(k)..LastClosed(k) : k[j].high <= k[i].high
        /\ \A j \in WindowStart(k)..(i - 1) : k[j].high < k[i].high

\* closes[i] < opens[i] or closes[i] < prev_close
IsPullback(k, i) == k[i].close < k[i].open \/ k[i].close < k[i - 1].close

PullbackCount(k) ==
    Cardinality({i \in (IdxHigh(k) + 1)..LastClosed(k) : IsPullback(k, i)})

find_setup_levels(k) ==
    IF Len(k) < LOOKBACK_FOR_HIGH + 5 THEN NoSetup
    ELSE IF IdxHigh(k) >= LastClosed(k) - MIN_PULLBACK_CANDLES THEN NoSetup
    ELSE IF PullbackCount(k) < MIN_PULLBACK_CANDLES THEN NoSetup
    ELSE [found |-> TRUE, buy_level |-> k[LastClosed(k)].high,
          pullback_low_ref |-> k[LastClosed(k)].low]

SetupIdle == kl = <<>> /\ fsl = [done |-> FALSE, out |-> NoSetup]

\* find_setup_levels(kl)
FindSetup ==
    /\ ~fsl.done
    /\ fsl' = [done |-> TRUE, out |-> find_setup_levels(kl)]
    /\ UNCHANGED <<bot, save, gainers, startup, muboh, kl>>

\* ------------------------------------------------------------------ Init
\* st, STATE_FILE and the locals of the loops
InitStore(universe) ==
    /\ symbols = [s \in {} |-> NewSymState]
    /\ top_symbols = universe
    /\ cache = {}
    /\ disk = Snapshot([s \in {} |-> NewSymState], universe)
    /\ k_syms = <<>> /\ k_i = 0 /\ k_tf = 0
    /\ p_syms = <<>> /\ p_items = <<>>
    /\ hs = [high |-> None, open |-> None]
    /\ sentLog = {}
    /\ obs = [s \in AllSymbols |-> InitObs]
    /\ hist = NoHist

InitBot(universe) ==
    /\ InitStore(universe)
    /\ alive = TRUE
    /\ pc = [t \in Tasks |-> "sleep"]

\* The loops start; nothing else is going on
InitWith(universe) ==
    /\ InitBot(universe) /\ SaveIdle /\ TopIdle /\ StartupIdle /\ MubohIdle
    /\ SetupIdle

\* get_top_gainers is about to be called on some ticker list
InitTop ==
    /\ InitBot(<<>>) /\ SaveIdle /\ StartupIdle /\ MubohIdle /\ SetupIdle
    /\ \E S \in TickerChoices : \E f \in [S -> Pcts] :
          tk_data = TickerData(S, f)
    /\ tk_out = [done |-> FALSE, syms |-> <<>>]

\* Only the price loop has a position that is not an await.
Quiet == alive /\ pc["P"] # "hs"

\* ---------------------------------------------------- loop_refresh_klines
\* The next (symbol, interval) of the pass that is fetched: cached intervals
\* are skipped (`continue`), a finished symbol moves on to the next one.
RECURSIVE KSeek(_, _, _, _)
KSeek(syms, i, j, c) ==
    IF i > Len(syms) THEN [done |-> TRUE, i |-> 0, j |-> 0]
    ELSE IF j > Len(Intervals) THEN KSeek(syms, i + 1, 1, c)
    ELSE IF <<syms[i], Intervals[j]>> \in c THEN KSeek(syms, i, j + 1, c)
    ELSE [done |-> FALSE, i |-> i, j |-> j]

\* KRaised ending the pass: the try around the for loop, not inside it
KRaised_Abort(c) == KSeek(k_syms, Len(k_syms) + 1, 1, c)

\* refresh_symbol_klines_cached raised with the cache as c: the except clause
\* of loop_refresh_klines prints, the for loop takes the next symbol.
KRaised(c) == KSeek(k_syms, k_i + 1, 1, c)

\* Continue the pass at position pos, or finish it: save_state, then sleep.
\* reg and c are the registry and the cache as the step leaves them.
KGoto(pos, reg, c) ==
    /\ symbols' = reg
    /\ cache' = c
    /\ IF pos.done
       THEN /\ disk' = Snapshot(reg, top_symbols)
            /\ pc' = [pc EXCEPT !["K"] = "sleep"]
            /\ k_i' = 0 /\ k_tf' = 0 /\ k_syms' = <<>>
       ELSE /\ pc' = [pc EXCEPT !["K"] = "await_klines"]
            /\ k_i' = pos.i /\ k_tf' = pos.j
            /\ UNCHANGED <<disk, k_syms>>

\* Rearm4h taking the level from every refresh, not only on a new candle
Rearm4h_AlwaysLevel(ss, closed) ==
    IF ss.last_4h_closed_open # closed.open_time
    THEN [ss EXCEPT !.last_4h_closed_open = closed.open_time,
                    !.last_4h_high = closed.high,
                    !.near_sent_for_4h = None,
                    !.break_sent_for_4h = None]
    ELSE [ss EXCEPT !.last_4h_high = closed.high]

\* Rearm4h clearing the sent flags on every refresh, not only on a new candle
Rearm4h_AlwaysClear(ss, closed) ==
    IF ss.last_4h_closed_open # closed.open_time
    THEN [ss EXCEPT !.last_4h_closed_open = closed.open_time,
                    !.last_4h_high = closed.high,
                    !.near_sent_for_4h = None,
                    !.break_sent_for_4h = None]
    ELSE [ss EXCEPT !.near_sent_for_4h = None,
                    !.break_sent_for_4h = None]

\* Rearm4h starting the whole watch afresh: the SELL latch is reset as well
Rearm4h_ResetUpmove(ss, closed) ==
    IF ss.last_4h_closed_open # closed.open_time
    THEN [ss EXCEPT !.last_4h_closed_open = closed.open_time,
                    !.last_4h_high = closed.high,
                    !.near_sent_for_4h = None,
                    !.break_sent_for_4h = None,
                    !.upmove_active = FALSE,
                    !.upmove_started_4h = None]
    ELSE ss

\* The 4h branch of refresh_symbol_klines_cached
Rearm4h(ss, closed) ==
    IF ss.last_4h_closed_open # closed.open_time
    THEN [ss EXCEPT !.last_4h_closed_open = closed.open_time,
                    !.last_4h_high = closed.high,
                    !.near_sent_for_4h = None,
                    !.break_sent_for_4h = None]
    ELSE ss

\* The 15m branch
Rearm15m(ss, closed) ==
    IF ss.last_15m_closed_open # closed.open_time
    THEN [ss EXCEPT !.last_15m_closed_open = closed.open_time,
                    !.last_15m_low = closed.low]
    ELSE ss

\* while True: syms = st.get("top_symbols") or []; an empty universe sleeps 2 s
\* and looks again.  asyncio.sleep(REFRESH_KLINES_SEC) has aged every cache
\* entry of the previous pass past REFRESH_KLINES_SEC.
KWake(W) ==
    /\ Quiet /\ pc["K"] = "sleep"
    /\ IF top_symbols = <<>>
       THEN UNCHANGED vars
       ELSE /\ k_syms' = top_symbols
            /\ k_i' = 1 /\ k_tf' = 1
            /\ cache' = {}
            /\ pc' = [pc EXCEPT !["K"] = "await_klines"]
            /\ hist' = Hist(W, [k_last |-> "", dirty |-> Dirty("K", FALSE)])
            /\ UNCHANGED <<symbols, top_symbols, disk, alive, p_syms, p_items,
                           hs, sentLog, obs, aux>>

\* await get_klines(...) of refresh_symbol_klines_cached completes
KKlines(W, reply) ==
    /\ Quiet /\ pc["K"] = "await_klines"
    /\ LET s == k_syms[k_i]
           interval == Intervals[k_tf]
           c1 == cache \cup {<<s, interval>>}
           reg1 == sym_state(symbols, s)
           closed == last_closed(reply.candles)
           ss == reg1[s]
           raised == ~reply.ok \/ NotEnoughCandles(reply.candles)
       IN
       /\ UNCHANGED <<top_symbols, alive, p_syms, p_items, hs, sentLog, aux>>
       /\ IF ~reply.ok
          THEN \* get_klines raised: the symbol's remaining intervals are skipped
               /\ KGoto(KRaised(cache), symbols, cache)
               /\ UNCHANGED obs
          ELSE IF NotEnoughCandles(reply.candles)
          THEN \* the cache entry and the symbol's dict exist, last_closed raised
               /\ KGoto(KRaised(c1), reg1, c1)
               /\ UNCHANGED obs
          ELSE IF interval = "1w"
          THEN /\ UNCHANGED obs
               /\ IF ss.last_1w_closed_open # closed.open_time
                  THEN /\ symbols' = [reg1 EXCEPT ![s].last_1w_closed_open =
                                                      closed.open_time]
                       /\ cache' = c1
                       /\ pc' = [pc EXCEPT !["K"] = "await_send"]
                       /\ UNCHANGED <<disk, k_syms, k_i, k_tf>>
                  ELSE KGoto(KSeek(k_syms, k_i, k_tf + 1, c1), reg1, c1)
          ELSE IF interval = "1d"
          THEN /\ UNCHANGED obs
               /\ IF ss.last_1d_closed_open # closed.open_time
                  THEN /\ symbols' = [reg1 EXCEPT ![s].last_1d_closed_open =
                                                      closed.open_time]
                       /\ cache' = c1
                       /\ pc' = [pc EXCEPT !["K"] = "await_send"]
                       /\ UNCHANGED <<disk, k_syms, k_i, k_tf>>
                  ELSE KGoto(KSeek(k_syms, k_i, k_tf + 1, c1), reg1, c1)
          ELSE IF interval = "4h"
          THEN /\ KGoto(KSeek(k_syms, k_i, k_tf + 1, c1),
                        [reg1 EXCEPT ![s] = Rearm4h(ss, closed)], c1)
               /\ obs' = IF ss.last_4h_closed_open # closed.open_time
                         THEN [obs EXCEPT ![s].band = FALSE, ![s].brk = FALSE,
                                          ![s].kept = FALSE]
                         ELSE [obs EXCEPT ![s].kept = TRUE]
          ELSE /\ KGoto(KSeek(k_syms, k_i, k_tf + 1, c1),
                        [reg1 EXCEPT ![s] = Rearm15m(ss, closed)], c1)
               /\ UNCHANGED obs
       /\ hist' = Hist(W, [k_last |-> IF raised THEN "fetch_raised" ELSE "ok",
                           seen4h |-> IF ~raised /\ interval = "4h"
                                      THEN closed ELSE hist.seen4h,
                           dirty |-> Dirty("K", hist.dirty["K"]
                                                  \/ symbols' # symbols)])

\* await tg_send_text(...) of the 1w / 1d branch completes or raises
KSend(W, ok) ==
    /\ Quiet /\ pc["K"] = "await_send"
    /\ UNCHANGED <<top_symbols, alive, p_syms, p_items, hs, sentLog, obs, aux>>
    /\ IF ok
       THEN KGoto(KSeek(k_syms, k_i, k_tf + 1, cache), symbols, cache)
       ELSE KGoto(KRaised(cache), symbols, cache)
    /\ hist' = Hist(W, [k_last |-> IF ok THEN "ok" ELSE "send_raised"])

KStep(W) ==
    \/ KWake(W)
    \/ /\ pc["K"] = "await_klines"
       /\ \E reply \in KlineReplies(W, k_syms[k_i], Intervals[k_tf]) :
             KKlines(W, reply)
    \/ \E ok \in BOOLEAN : KSend(W, ok)

\* ------------------------------------------------------------ handle_signals
\* 1) near the max
NearFires(ss, price, high, open) ==
    /\ InNear(price, high)
    /\ ss.near_sent_for_4h # open

\* BreakFires with a strict comparison (> for >=)
BreakFires_Strict(ss, price, high, open) ==
    /\ price > high
    /\ ss.break_sent_for_4h # open

\* 2) break the max
BreakFires(ss, price, high, open) ==
    /\ price >= high
    /\ ss.break_sent_for_4h # open

\* SellFires without the sell-once latch
SellFires_NoLatch(ss, price) ==
    /\ ss.upmove_active
    /\ Truthy(ss.last_15m_low) /\ Truthy(ss.last_15m_closed_open)
    /\ price < ss.last_15m_low

\* 3) SELL: only once after each break
SellFires(ss, price) ==
    /\ ss.upmove_active
    /\ ss.sell_once_done_for_break # ss.upmove_started_4h
    /\ Truthy(ss.last_15m_low) /\ Truthy(ss.last_15m_closed_open)
    /\ price < ss.last_15m_low

\* What the break branch writes
MarkBreak(ss, open) ==
    [ss EXCEPT !.break_sent_for_4h = open,
               !.upmove_active = TRUE,
               !.upmove_started_4h = open,
               !.sell_once_done_for_break = None]

NoHs == [high |-> None, open |-> None]

\* PReturn fetching the price map again before the next symbol
PReturn_Refetch(reg, ob) ==
    /\ symbols' = reg
    /\ obs' = ob
    /\ hs' = NoHs
    /\ p_items' = Tail(p_items)
    /\ IF Tail(p_items) = <<>>
       THEN /\ disk' = Snapshot(reg, top_symbols)
            /\ pc' = [pc EXCEPT !["P"] = "sleep"]
            /\ p_syms' = <<>>
       ELSE /\ pc' = [pc EXCEPT !["P"] = "await_prices"]
            /\ UNCHANGED <<disk, p_syms>>

\* handle_signals returned or raised: the for loop of loop_prices takes the
\* next item of price_map, after the last one save_state and sleep.
PReturn(reg, ob) ==
    /\ symbols' = reg
    /\ obs' = ob
    /\ hs' = NoHs
    /\ p_items' = Tail(p_items)
    /\ IF Tail(p_items) = <<>>
       THEN /\ disk' = Snapshot(reg, top_symbols)
            /\ pc' = [pc EXCEPT !["P"] = "sleep"]
            /\ p_syms' = <<>>
       ELSE /\ pc' = [pc EXCEPT !["P"] = "hs"]
            /\ UNCHANGED <<disk, p_syms>>

\* handle_signals suspends at an await
PSuspend(reg, ob, h, at) ==
    /\ symbols' = reg
    /\ obs' = ob
    /\ hs' = h
    /\ pc' = [pc EXCEPT !["P"] = at]
    /\ UNCHANGED <<disk, p_syms, p_items>>

\* handle_signals from `if ss.get("upmove_active")` on
PSell(reg, ob, s, price, h) ==
    IF SellFires(reg[s], price)
    THEN PSuspend([reg EXCEPT ![s].sell_once_done_for_break =
                                  reg[s].upmove_started_4h],
                  [ob EXCEPT ![s].sold = TRUE], h, "await_sell_klines")
    ELSE PReturn(reg, ob)

\* handle_signals from `if price >= last4h_high` on
PBreak(reg, ob, s, price, h) ==
    IF BreakFires(reg[s], price, h.high, h.open)
    THEN PSuspend([reg EXCEPT ![s] = MarkBreak(reg[s], h.open)],
                  [ob EXCEPT ![s].sold = FALSE, ![s].prevSold = ob[s].sold],
                  h, "await_break_klines")
    ELSE PSell(reg, ob, s, price, h)

\* handle_signals(session, st, symbol, price, cache) up to its first await
PHs(W) ==
    /\ alive /\ pc["P"] = "hs"
    /\ LET s == Head(p_items)[1]
           price == Head(p_items)[2]
           reg == sym_state(symbols, s)
           ss == reg[s]
           h == [high |-> ss.last_4h_high, open |-> ss.last_4h_closed_open]
           ob == [obs EXCEPT ![s].band = @ \/ InBand(price, h.high),
                             ![s].brk = @ \/ price >= h.high]
       IN
       /\ UNCHANGED <<top_symbols, cache, alive, k_syms, k_i, k_tf, sentLog,
                      aux>>
       /\ IF ~Truthy(h.high) \/ ~Truthy(h.open)
             \/ ~Truthy(ss.last_1d_closed_open)
          THEN PReturn(reg, obs)
          ELSE IF NearFires(ss, price, h.high, h.open)
          THEN PSuspend([reg EXCEPT ![s].near_sent_for_4h = h.open], ob, h,
                        "await_near_klines")
          ELSE PBreak(reg, ob, s, price, h)
       /\ hist' = Hist(W, [dirty |-> Dirty("P", hist.dirty["P"]
                                                  \/ symbols' # symbols)])

\* An await inside handle_signals completes (ok) or raises.  A chart fetch
\* that completes is followed by render_candles_png and the tg_send_photo
\* call; a raise leaves handle_signals (caught per symbol in loop_prices).
PAwait(W, ok) ==
    /\ Quiet
    /\ pc["P"] \in {"await_near_klines", "await_near_photo",
                     "await_break_klines", "await_break_photo",
                     "await_sell_klines", "await_sell_photo"}
    /\ LET s == Head(p_items)[1]
           price == Head(p_items)[2]
           at == pc["P"]
           log == W.log
       IN
       /\ UNCHANGED <<top_symbols, cache, alive, k_syms, k_i, k_tf, aux>>
       /\ IF ~ok
          THEN PReturn(symbols, obs) /\ UNCHANGED sentLog
          ELSE CASE at = "await_near_klines" ->
                      /\ PSuspend(symbols, obs, hs, "await_near_photo")
                      /\ sentLog' = IF "NEAR" \in log
                                    THEN sentLog \cup {<<s, "NEAR", hs.open>>}
                                    ELSE sentLog
                 [] at = "await_break_klines" ->
                      /\ PSuspend(symbols, obs, hs, "await_break_photo")
                      /\ sentLog' = IF "BREAK" \in log
                                    THEN sentLog \cup {<<s, "BREAK", hs.open>>}
                                    ELSE sentLog
                 [] at = "await_sell_klines" ->
                      /\ PSuspend(symbols, obs, hs, "await_sell_photo")
                      /\ sentLog' = IF "SELL" \in log
                                    THEN sentLog \cup
                                         {<<s, "SELL", symbols[s].upmove_started_4h>>}
                                    ELSE sentLog
                 [] at = "await_near_photo" ->
                      /\ PBreak(symbols, obs, s, price, hs)
                      /\ UNCHANGED sentLog
                 [] at = "await_break_photo" ->
                      /\ PSell(symbols, obs, s, price, hs)
                      /\ UNCHANGED sentLog
                 [] OTHER ->
                      /\ PReturn(symbols, obs)
                      /\ UNCHANGED sentLog
       /\ hist' = Hist(W, [dirty |-> Dirty("P", hist.dirty["P"]
                                                  \/ symbols' # symbols)])

\* ----------------------------------------------------------- loop_prices
\* The ticker list of the exchange: each of its symbols at most once
TickerLists(W) ==
    {<<>>}
      \cup {<<<<a, p>>>> : a \in W.syms, p \in W.prices}
      \cup {<<<<ab[1], p>>, <<ab[2], q>>>> :
                ab \in Pairs(W.syms), p \in W.prices, q \in W.prices}

\* while True: syms = st.get("top_symbols") or []; empty sleeps 1 s
PWake(W) ==
    /\ Quiet /\ pc["P"] = "sleep"
    /\ IF top_symbols = <<>>
       THEN UNCHANGED vars
       ELSE /\ p_syms' = top_symbols
            /\ pc' = [pc EXCEPT !["P"] = "await_prices"]
            /\ hist' = Hist(W, [dirty |-> Dirty("P", FALSE), p_map |-> <<>>])
            /\ UNCHANGED <<symbols, top_symbols, cache, disk, alive, k_syms,
                           k_i, k_tf, p_items, hs, sentLog, obs, aux>>

\* await get_price_map(session, syms) completes with the ticker list `data`
PPrices(W, data) ==
    /\ Quiet /\ pc["P"] = "await_prices"
    /\ LET price_map == get_price_map(data, p_syms) IN
       /\ p_items' = price_map
       /\ hist' = Hist(W, [p_map |-> price_map])
       /\ IF price_map = <<>>
          THEN /\ disk' = Snapshot(symbols, top_symbols)
               /\ pc' = [pc EXCEPT !["P"] = "sleep"]
               /\ p_syms' = <<>>
          ELSE /\ pc' = [pc EXCEPT !["P"] = "hs"]
               /\ UNCHANGED <<disk, p_syms>>
    /\ UNCHANGED <<symbols, top_symbols, cache, alive, k_syms, k_i, k_tf, hs,
                   sentLog, obs, aux>>

\* await get_price_map raised: except -> await tg_send_text(error)
PPricesFail ==
    /\ Quiet /\ pc["P"] = "await_prices"
    /\ pc' = [pc EXCEPT !["P"] = "await_send_err"]
    /\ UNCHANGED <<symbols, top_symbols, cache, disk, alive, k_syms, k_i,
                   k_tf, p_syms, p_items, hs, sentLog, obs, hist, aux>>

\* The send of the except clause completes, or raises out of loop_prices:
\* asyncio.gather re-raises, main() ends and the process with it.
PSendErr(ok) ==
    /\ Quiet /\ pc["P"] = "await_send_err"
    /\ IF ok
       THEN /\ pc' = [pc EXCEPT !["P"] = "sleep"]
            /\ UNCHANGED alive
       ELSE /\ alive' = FALSE
            /\ pc' = [pc EXCEPT !["P"] = "raised"]
    /\ p_syms' = <<>>
    /\ UNCHANGED <<symbols, top_symbols, cache, disk, k_syms, k_i, k_tf,
                   p_items, hs, sentLog, obs, hist, aux>>

PStep(W) ==
    \/ PWake(W)
    \/ \E data \in TickerLists(W) : PPrices(W, data)
    \/ PPricesFail
    \/ \E ok \in BOOLEAN : PSendErr(ok)
    \/ PHs(W)
    \/ \E ok \in BOOLEAN : PAwait(W, ok)

\* ------------------------------------------------------ crash and restart
\* The process is killed, at any point
BotCrash ==
    /\ alive
    /\ alive' = FALSE
    /\ pc' = [t \in Tasks |-> "down"]
    /\ UNCHANGED <<symbols, top_symbols, cache, disk, k_syms, k_i, k_tf,
                   p_syms, p_items, hs, sentLog, obs, hist, aux>>

\* The process is started again after a crash or after a loop has raised:
\* main() takes st from load_state(), the cache is empty, the start message
\* is sent and the loops are created.  (A start message that fails ends the
\* process again, with nothing changed.)
StartLoops ==
    /\ ~alive
    /\ alive' = TRUE
    /\ symbols' = disk.symbols
    /\ top_symbols' = disk.top_symbols
    /\ cache' = {}
    /\ pc' = [t \in Tasks |-> "sleep"]
    /\ k_syms' = <<>> /\ k_i' = 0 /\ k_tf' = 0
    /\ p_syms' = <<>> /\ p_items' = <<>>
    /\ hs' = NoHs
    /\ UNCHANGED <<disk, sentLog, obs, hist>>

BotRestart == StartLoops /\ UNCHANGED aux

\* ------------------------------------------------------- start of bot_020
\* The module is imported: lines 20-21 read the environment, lines 38-39
\* raise RuntimeError if either value is empty
Import020 ==
    /\ At("bot_020", "import")
    /\ boot' = [boot EXCEPT !.at =
                  IF \/ strip(env.TELEGRAM_BOT_TOKEN) = ""
                     \/ strip(env.TELEGRAM_CHAT_ID) = ""
                  THEN "aborted" ELSE "main"]
    /\ UNCHANGED <<bot, save, gainers, setup, env, muboh>>

\* asyncio.run(main()): the loops start
Main020 ==
    /\ At("bot_020", "main")
    /\ StartLoops
    /\ boot' = [boot EXCEPT !.at = "running"]
    /\ UNCHANGED <<save, gainers, setup, env, muboh>>

Boot020 == Import020 \/ Main020

\* ------------------------------------------------------- loop_refresh_top
\* What get_top_gainers can return: symbols of the exchange, none twice
TopLists(W) ==
    {<<>>}
      \cup {<<a>> : a \in W.syms}
      \cup Pairs(W.syms)

TWake(W) ==
    /\ Quiet /\ pc["T"] = "sleep"
    /\ pc' = [pc EXCEPT !["T"] = "await_top"]
    /\ hist' = Hist(W, [dirty |-> Dirty("T", FALSE)])
    /\ UNCHANGED <<symbols, top_symbols, cache, disk, alive, k_syms, k_i,
                   k_tf, p_syms, p_items, hs, sentLog, obs, aux>>

\* await get_top_gainers completes: st["top_symbols"] = syms and
\* st["last_top_refresh_ms"] = now_ms(), then the send
TTop(W, syms) ==
    /\ Quiet /\ pc["T"] = "await_top"
    /\ top_symbols' = syms
    /\ pc' = [pc EXCEPT !["T"] = "await_send_ok"]
    /\ hist' = Hist(W, [dirty |-> Dirty("T", TRUE)])
    /\ UNCHANGED <<symbols, cache, disk, alive, k_syms, k_i, k_tf, p_syms,
                   p_items, hs, sentLog, obs, aux>>

\* await get_top_gainers raised: except -> await tg_send_text(error)
TTopFail ==
    /\ Quiet /\ pc["T"] = "await_top"
    /\ pc' = [pc EXCEPT !["T"] = "await_send_err"]
    /\ UNCHANGED <<symbols, top_symbols, cache, disk, alive, k_syms, k_i,
                   k_tf, p_syms, p_items, hs, sentLog, obs, hist, aux>>

\* The "updated" send completes (save_state, sleep) or raises (except clause)
TSendOk(ok) ==
    /\ Quiet /\ pc["T"] = "await_send_ok"
    /\ IF ok
       THEN /\ disk' = Snapshot(symbols, top_symbols)
            /\ pc' = [pc EXCEPT !["T"] = "sleep"]
       ELSE /\ pc' = [pc EXCEPT !["T"] = "await_send_err"]
            /\ UNCHANGED disk
    /\ UNCHANGED <<symbols, top_symbols, cache, alive, k_syms, k_i, k_tf,
                   p_syms, p_items, hs, sentLog, obs, hist, aux>>

\* The send of the except clause completes, or raises out of loop_refresh_top
TSendErr(ok) ==
    /\ Quiet /\ pc["T"] = "await_send_err"
    /\ IF ok
       THEN /\ pc' = [pc EXCEPT !["T"] = "sleep"]
            /\ UNCHANGED alive
       ELSE /\ alive' = FALSE
            /\ pc' = [pc EXCEPT !["T"] = "raised"]
    /\ UNCHANGED <<symbols, top_symbols, cache, disk, k_syms, k_i, k_tf,
                   p_syms, p_items, hs, sentLog, obs, hist, aux>>

TStep(W) ==
    \/ TWake(W)
    \/ \E syms \in TopLists(W) : TTop(W, syms)
    \/ TTopFail
    \/ \E ok \in BOOLEAN : TSendOk(ok)
    \/ \E ok \in BOOLEAN : TSendErr(ok)

\* --------------------------------------------------------- specifications
\* Spec: the kline and price loops over the universe <<"A">>, between two
\* refreshes of the universe, with the rich candle data of CoreWorld.
Init == InitWith(<<"A">>)

Next == KStep(CoreWorld) \/ PStep(CoreWorld)

Spec == Init /\ [][Next]_vars

\* SpecLog: Spec with the history of sent photos kept.
NextLog == KStep(LogWorld) \/ PStep(LogWorld)

SpecLog == Init /\ [][NextLog]_vars

\* SpecLoops: the three loops from a fresh start (no state file), one symbol.
InitLoops == InitWith(<<>>)

NextLoops == TStep(LoopWorld) \/ KStep(LoopWorld) \/ PStep(LoopWorld)

SpecLoops == InitLoops /\ [][NextLoops]_vars

\* SpecCrash: the kline and price loops over the universe <<"A">>, with
\* crashes and restarts; one 4h candle, so no epoch comes back by a rearm.
NextCrash ==
    \/ KStep(CrashWorld) \/ PStep(CrashWorld)
    \/ BotCrash
    \/ BotRestart

SpecCrash == Init /\ [][NextCrash]_vars

\* SpecTick: the kline and price loops over the universe <<"A", "B">>.
InitTick == InitWith(<<"A", "B">>)

NextTick == KStep(TickWorld) \/ PStep(TickWorld)

SpecTick == InitTick /\ [][NextTick]_vars

\* SpecStarve: the kline and price loops over the universe <<"A", "B">> in
\* StarveWorld.  Both loops keep running: every await of theirs ends (the
\* HTTP calls have a timeout, the sleeps are finite) and the event loop then
\* resumes the task.  The kline loop cannot step while the price loop is
\* between two handle_signals calls, which happens again and again, hence
\* strong fairness for it.
NextStarve == KStep(StarveWorld) \/ PStep(StarveWorld)

SpecStarve ==
    /\ InitTick /\ [][NextStarve]_vars
    /\ SF_vars(KStep(StarveWorld)) /\ WF_vars(PStep(StarveWorld))

\* SpecStartup: a process is started on bot_020 (three loops, fresh start) or on
\* bot_3m_muboh (handler and job), with any of the required environment
\* variables set, blank or not set.
InitStartup ==
    /\ InitStore(<<>>) /\ alive = FALSE /\ pc = [t \in Tasks |-> "down"]
    /\ SaveIdle /\ TopIdle /\ MubohIdle /\ SetupIdle
    /\ \E p \in Programs, tok \in EnvTokens, chat \in EnvChats :
          /\ boot = [prog |-> p, at |-> "import"]
          /\ env = IF p = "bot_020"
                   THEN [FullEnv EXCEPT !.TELEGRAM_BOT_TOKEN = tok,
                                        !.TELEGRAM_CHAT_ID = chat]
                   ELSE [FullEnv EXCEPT !.BOT_TOKEN = tok,
                                        !.ADMIN_DM_CHAT_ID = chat]

NextStartup ==
    \/ Boot020
    \/ TStep(LoopWorld) \/ KStep(LoopWorld) \/ PStep(LoopWorld)
    \/ MStep(StartView)

SpecStartup == InitStartup /\ [][NextStartup]_vars

\* SpecMuboh: bot_3m_muboh alone, started with its environment set.
InitMuboh ==
    /\ InitStore(<<>>) /\ alive = FALSE /\ pc = [t \in Tasks |-> "down"]
    /\ SaveIdle /\ TopIdle /\ MubohIdle /\ SetupIdle
    /\ env = FullEnv
    /\ boot = [prog |-> "bot_3m_muboh", at |-> "import"]

NextMuboh == MStep(RegView)

SpecMuboh == InitMuboh /\ [][NextMuboh]_vars

\* SpecSignals: SpecMuboh with the history of the signals kept
NextSignals == MStep(SigView)

SpecSignals == InitMuboh /\ [][NextSignals]_vars

\* SpecSetup: find_setup_levels is called on a series of klines, one too
\* short for it or longer.
InitSetup ==
    /\ InitBot(<<>>) /\ SaveIdle /\ TopIdle /\ StartupIdle /\ MubohIdle
    /\ \E n \in (LOOKBACK_FOR_HIGH + 4)..MaxCandles : kl \in [1..n -> Klines]
    /\ fsl = [done |-> FALSE, out |-> NoSetup]

SpecSetup == InitSetup /\ [][FindSetup]_vars

\* SpecSeen: Spec with the history of the 4h candles seen, one 15m candle.
NextSeen == KStep(SeenWorld) \/ PStep(SeenWorld)

SpecSeen == Init /\ [][NextSeen]_vars

\* SpecTop: get_top_gainers applied to every ticker list.
SpecTop == InitTop /\ [][TopGainers]_vars

\* SpecSave: save_state and load_state in detail, with crashes, from a fresh
\* start.
SpecSave == InitLoops /\ [][SaveStep]_vars

\* SpecUniverse: the universe and kline loops from a fresh start, two symbols.
NextUniverse == TStep(WideWorld) \/ KStep(WideWorld)

SpecUniverse == InitLoops /\ [][NextUniverse]_vars

\* ------------------------------------------------------------- properties
\* The symbol's dict, as sym_state would return it
Reg(s) == IF s \in DOMAIN symbols THEN symbols[s] ELSE NewSymState

\* All three of last_4h_high, last_4h_closed_open, last_1d_closed_open are set
Armed(s) ==
    /\ Truthy(Reg(s).last_4h_high)
    /\ Truthy(Reg(s).last_4h_closed_open)
    /\ Truthy(Reg(s).last_1d_closed_open)

\* The step taken from here is a price observation: handle_signals(Cur, CurPrice)
Observing == pc["P"] = "hs"
Cur == Head(p_items)[1]
CurPrice == Head(p_items)[2]

\* A step in which handle_signals takes the NEAR / BREAK / SELL branch
NearStep == pc["P"] # "await_near_klines" /\ pc'["P"] = "await_near_klines"
BreakStep == pc["P"] # "await_break_klines" /\ pc'["P"] = "await_break_klines"
SellStep == pc["P"] # "await_sell_klines" /\ pc'["P"] = "await_sell_klines"

\* A step in which the NEAR / BREAK photo is handed to tg_send_photo
NearPhotoStep == pc["P"] = "await_near_klines" /\ pc'["P"] = "await_near_photo"
BreakPhotoStep ==
    pc["P"] = "await_break_klines" /\ pc'["P"] = "await_break_photo"

\* C1: for every symbol and every value of last_4h_closed_open, the NEAR photo
\* is sent at most once and the BREAK photo is sent at most once.
C1_AtMostOncePerEpoch ==
    [][/\ NearPhotoStep => <<Cur, "NEAR", hs.open>> \notin sentLog
       /\ BreakPhotoStep => <<Cur, "BREAK", hs.open>> \notin sentLog]_vars

\* C2: once a price >= level was observed since the rearm, no later observation
\* before the next rearm takes the NEAR branch.
C2_NoNearAfterBreak == [][NearStep => ~obs[Cur].brk]_vars

\* C3: SELL fires only while upmove_active, marks the latch for the current
\* break, and fires at most once per BREAK: never when SELL has already fired
\* since the last BREAK.
C3_SellOncePerBreak ==
    [][SellStep =>
         /\ Reg(Cur).upmove_active
         /\ ~obs[Cur].sold
         /\ Reg(Cur)'.sell_once_done_for_break = Reg(Cur)'.upmove_started_4h
      ]_vars

\* SELL has fired for a second break, after it had fired for the first
C3_Witness ==
    /\ pc["P"] = "await_sell_photo"
    /\ obs["A"].sold /\ obs["A"].prevSold

\* C4: with the watch armed, an observation takes the NEAR branch exactly when
\* its price is in the near band and no earlier observation since the rearm
\* was; no other step takes the NEAR branch.
C4_NearOnFirstInBand ==
    [][/\ Observing =>
            (NearStep <=> /\ Armed(Cur)
                          /\ InBand(CurPrice, Reg(Cur).last_4h_high)
                          /\ ~obs[Cur].band)
       /\ NearStep => Observing]_vars

\* NEAR has fired on the lowest price of the band of level 200
C4_Witness ==
    /\ pc["P"] = "await_near_klines"
    /\ hs.high = 200 /\ CurPrice = 198

\* C5: an observation takes the BREAK branch exactly when the watch is armed,
\* its price is >= level and no earlier observation since the rearm was; that
\* step sets upmove_active, upmove_started_4h = the current epoch and clears
\* sell_once_done_for_break; no other step changes upmove_started_4h.
C5_BreakOnFirstReach ==
    [][/\ Observing =>
            (BreakStep <=> /\ Armed(Cur)
                           /\ CurPrice >= Reg(Cur).last_4h_high
                           /\ ~obs[Cur].brk)
       /\ BreakStep =>
            /\ Observing
            /\ Reg(Cur)'.upmove_active
            /\ Reg(Cur)'.upmove_started_4h = Reg(Cur).last_4h_closed_open
            /\ Reg(Cur)'.sell_once_done_for_break = None
       /\ \A s \in AllSymbols :
            Reg(s)'.upmove_started_4h # Reg(s).upmove_started_4h
               => BreakStep /\ s = Cur]_vars

\* BREAK has fired on a price equal to the level, in the second epoch
C5_Witness ==
    /\ pc["P"] = "await_break_klines"
    /\ CurPrice = hs.high
    /\ Reg("A").upmove_started_4h = 2
    /\ Reg("A").upmove_active

\* C6: last_4h_high changes only in a refresh step that changes
\* last_4h_closed_open (a rearm).
C6_LevelFixedBetweenRearms ==
    [][\A s \in AllSymbols :
         Reg(s)'.last_4h_high # Reg(s).last_4h_high
            => /\ pc["K"] = "await_klines"
               /\ Reg(s)'.last_4h_closed_open # Reg(s).last_4h_closed_open
      ]_vars

\* Since the rearm a price >= level was observed and a refresh saw the candle
\* unchanged
C6_Witness ==
    /\ obs["A"].kept /\ obs["A"].brk
    /\ Reg("A").last_4h_high = 200

\* C7: a step that does not change last_4h_closed_open (is no rearm) leaves a
\* set NEAR flag set and a set BREAK flag set.
C7_FlagsMonotonic ==
    [][\A s \in AllSymbols :
         (/\ Reg(s)'.last_4h_closed_open = Reg(s).last_4h_closed_open
          /\ Truthy(Reg(s).last_4h_closed_open))
            => /\ Reg(s).near_sent_for_4h = Reg(s).last_4h_closed_open
                    => Reg(s)'.near_sent_for_4h = Reg(s).last_4h_closed_open
               /\ Reg(s).break_sent_for_4h = Reg(s).last_4h_closed_open
                    => Reg(s)'.break_sent_for_4h = Reg(s).last_4h_closed_open
      ]_vars

\* Both flags are set and a refresh has seen the candle unchanged
C7_Witness ==
    /\ Truthy(Reg("A").last_4h_closed_open)
    /\ Reg("A").near_sent_for_4h = Reg("A").last_4h_closed_open
    /\ Reg("A").break_sent_for_4h = Reg("A").last_4h_closed_open
    /\ obs["A"].kept

\* C8: last_4h_closed_open never decreases: a poll whose last closed 4h candle
\* is not newer than the marker rearms nothing.
C8_RearmOnlyOnIncrease ==
    [][\A s \in AllSymbols :
         Reg(s)'.last_4h_closed_open >= Reg(s).last_4h_closed_open]_vars

\* C9: no failed fetch and no failed send ends a loop: the process keeps
\* running.
C9_ProcessKeepsRunning == alive /\ \A t \in Tasks : pc[t] # "raised"

\* C10: the step in which loop_refresh_top replaces st["top_symbols"] leaves
\* in st["symbols"] only symbols of the new universe.
C10_RegistryWithinUniverse ==
    [][pc["T"] = "await_top" /\ pc'["T"] = "await_send_ok"
         => DOMAIN symbols' \subseteq Range(top_symbols')]_vars

\* A step of the kline loop
KMoved == <<pc["K"], k_i, k_tf>>' # <<pc["K"], k_i, k_tf>>

\* The step in which a kline fetch fails: get_klines raised or returned fewer
\* than two candles
FetchRaisedStep ==
    pc["K"] = "await_klines" /\ KMoved /\ hist'.k_last = "fetch_raised"

\* C11: the step in which a kline fetch of a symbol fails changes no field of
\* that symbol (levels, markers, sent flags) and the pass goes on: the fetch
\* for the next symbol of the pass is issued, after the last symbol the pass
\* ends with save_state.  No step of a pass skips a symbol.
C11_FailedFetchLeavesSymbol ==
    [][/\ FetchRaisedStep =>
            /\ \A s \in AllSymbols : s = k_syms[k_i] => Reg(s)' = Reg(s)
            /\ IF k_i < Len(k_syms)
               THEN /\ pc'["K"] = "await_klines"
                    /\ k_syms' = k_syms /\ k_i' = k_i + 1 /\ k_tf' = 1
               ELSE /\ pc'["K"] = "sleep"
                    /\ disk' = Snapshot(symbols', top_symbols')
       /\ KMoved /\ pc["K"] # "sleep" =>
            \/ pc'["K"] # "sleep" /\ k_i' \in {k_i, k_i + 1}
            \/ pc'["K"] = "sleep" /\ k_i = Len(k_syms)]_vars

\* The fetch for the first symbol of the pass, armed in an earlier pass, has
\* just failed and the fetch for the second symbol is under way
C11_Witness ==
    /\ pc["K"] = "await_klines" /\ k_i = 2 /\ k_tf = 1
    /\ hist.k_last = "fetch_raised"
    /\ Truthy(Reg(k_syms[1]).last_4h_high)

\* C12: STATE_FILE always holds, complete, the argument of the last save_state
\* that returned (at first: no file, the default state), whatever the point of
\* a crash; load_state after a restart returns exactly that snapshot.
C12_AtomicSave ==
    [][/\ fs'["STATE_FILE"].exists => Parses(fs'["STATE_FILE"].text)
       /\ load_state(fs') = sv'.committed
       /\ sv.at = "down" /\ sv'.at = "idle" => sv'.loaded = sv.committed]_vars

\* After a crash in the middle of writing the temp file the restart has loaded
\* the snapshot committed before, and a later save_state is under way
C12_Witness ==
    /\ fs["STATE_FILE.tmp"].exists
    /\ Len(fs["STATE_FILE.tmp"].text) \in 1..3
    /\ sv.at = "open"
    /\ sv.loaded = sv.committed
    /\ sv.committed # DefaultState

\* C13: a loop that has written to st since it woke up goes to sleep only
\* with STATE_FILE holding the state as it then is.
C13_SavedBeforeSleep ==
    [][\A t \in Tasks :
         pc[t] # "sleep" /\ pc'[t] = "sleep" /\ hist'.dirty[t]
            => disk' = Snapshot(symbols', top_symbols')]_vars

\* C14: the price loop issues get_price_map only when it wakes up, once per
\* tick; the map it keeps is the one that fetch returned, and every
\* handle_signals call of the tick gets a symbol and its price from that map,
\* whatever the kline loop does in between.
C14_OnePriceMapPerTick ==
    [][/\ pc["P"] # "await_prices" /\ pc'["P"] = "await_prices"
            => pc["P"] = "sleep"
       /\ hist'.p_map # hist.p_map => pc["P"] \in {"sleep", "await_prices"}
       /\ Observing =>
            /\ Len(p_items) <= Len(hist.p_map)
            /\ p_items = SubSeq(hist.p_map,
                                Len(hist.p_map) - Len(p_items) + 1,
                                Len(hist.p_map))]_vars

\* The second symbol of a price map is up for evaluation while the kline loop
\* is in the middle of refreshing that very symbol; a price of the first
\* symbol has been in the near band
C14_Witness ==
    /\ Observing
    /\ Len(hist.p_map) = 2 /\ Len(p_items) = 1
    /\ obs[hist.p_map[1][1]].band
    /\ pc["K"] = "await_klines" /\ k_syms[k_i] = Cur /\ k_tf = 4

\* The items get_top_gainers may return: quoted in USDT, not on the denylist,
\* with a percent change that parses
Eligible(x) ==
    /\ EndsWith(x.symbol, USDT)
    /\ ~Denylisted(x.symbol)
    /\ ~Unparsable(x.priceChangePercent)

\* The percent change of a returned symbol
PctOf(sym) ==
    ParsePct((CHOOSE x \in Range(tk_data) : x.symbol = sym).priceChangePercent)

\* C15: get_top_gainers returns at most TOP_N symbols, each of an eligible
\* item of the ticker list and none twice, in order of non-increasing percent
\* change; an eligible item is left out only when TOP_N symbols are returned
\* and none of them has a smaller percent change.
C15_TopGainers ==
    tk_out.done =>
        LET out == tk_out.syms IN
        /\ Len(out) <= TOP_N
        /\ \A i \in 1..Len(out) :
              \E x \in Range(tk_data) : x.symbol = out[i] /\ Eligible(x)
        /\ \A i, j \in 1..Len(out) :
              i < j => out[i] # out[j] /\ PctOf(out[i]) >= PctOf(out[j])
        /\ \A x \in Range(tk_data) :
              Eligible(x) /\ x.symbol \notin Range(out) =>
                 /\ Len(out) = TOP_N
                 /\ \A i \in 1..Len(out) :
                       PctOf(out[i]) >= ParsePct(x.priceChangePercent)

\* TOP_N symbols with different percent changes are returned, the first item
\* of the ticker list is eligible and cut, and no item had a
\* higher percent change than a denylisted one
C15_Witness ==
    /\ tk_out.done /\ Len(tk_out.syms) = TOP_N
    /\ PctOf(tk_out.syms[1]) > PctOf(tk_out.syms[TOP_N])
    /\ Eligible(tk_data[1]) /\ tk_data[1].symbol \notin Range(tk_out.syms)
    /\ \E x \in Range(tk_data) :
          /\ Denylisted(x.symbol)
          /\ ParsePct(x.priceChangePercent) >= PctOf(tk_out.syms[1])

\* The step in which the kline loop takes the answer of a 4h fetch: its last
\* closed candle is hist'.seen4h
Saw4hStep ==
    /\ pc["K"] = "await_klines" /\ KMoved
    /\ Intervals[k_tf] = "4h" /\ hist'.k_last = "ok"

\* C16: a process started on bot_020 or on bot_3m_muboh without its bot token
\* or without its chat id (not set, or blank) never gets to run: no loop of
\* bot_020 leaves "down", and bot_3m_muboh neither starts polling nor enters
\* on_message or periodic_scan.
Configured(v) == strip(v) # ""

MissingConfig ==
    \/ /\ boot.prog = "bot_020"
       /\ ~(Configured(env.TELEGRAM_BOT_TOKEN)
              /\ Configured(env.TELEGRAM_CHAT_ID))
    \/ /\ boot.prog = "bot_3m_muboh"
       /\ ~(Configured(env.BOT_TOKEN) /\ Configured(env.ADMIN_DM_CHAT_ID))

C16_AbortsBeforeRunning ==
    MissingConfig =>
        /\ boot.at # "running"
        /\ ~alive /\ \A t \in Tasks : pc[t] = "down"
        /\ m_ran = {}

\* C17: the step in which a refresh sees a last closed 4h candle whose
\* open_time differs from last_4h_closed_open (None included) sets the marker
\* to that open_time and last_4h_high to that candle's high, clears
\* near_sent_for_4h and break_sent_for_4h, and changes no other field of the
\* symbol.
C17_RearmFrame ==
    [][Saw4hStep =>
         \A s \in AllSymbols :
            (/\ s = k_syms[k_i]
             /\ hist'.seen4h.open_time # Reg(s).last_4h_closed_open)
               => Reg(s)' =
                     [Reg(s) EXCEPT
                        !.last_4h_closed_open = hist'.seen4h.open_time,
                        !.last_4h_high = hist'.seen4h.high,
                        !.near_sent_for_4h = None,
                        !.break_sent_for_4h = None]]_vars

\* A rearm has just taken place after NEAR, BREAK and SELL of the epoch
\* before: the flags are cleared, the SELL latch of that break is kept
C17_Witness ==
    /\ pc["K"] = "await_klines" /\ Intervals[k_tf] = "15m"
    /\ hist.k_last = "ok"
    /\ hist.seen4h.open_time = Reg("A").last_4h_closed_open
    /\ Reg("A").near_sent_for_4h = None /\ Reg("A").break_sent_for_4h = None
    /\ Reg("A").upmove_active
    /\ Truthy(Reg("A").upmove_started_4h)
    /\ Reg("A").upmove_started_4h # Reg("A").last_4h_closed_open
    /\ Reg("A").sell_once_done_for_break = Reg("A").upmove_started_4h
    /\ Truthy(Reg("A").last_15m_low)

\* C20: a step that takes the NEAR or the BREAK branch decides on the level
\* and the epoch the shared state holds in that step, also after an await of
\* handle_signals, and the flag it writes is the epoch the state then holds;
\* a step that takes the SELL branch decides on the 15m low the state holds.
C20_DecisionsOnCurrentLevel ==
    [][/\ NearStep =>
            /\ hs'.open = Reg(Cur).last_4h_closed_open
            /\ hs'.high = Reg(Cur).last_4h_high
            /\ InBand(CurPrice, Reg(Cur).last_4h_high)
            /\ Reg(Cur)'.near_sent_for_4h = Reg(Cur)'.last_4h_closed_open
       /\ BreakStep =>
            /\ hs'.open = Reg(Cur).last_4h_closed_open
            /\ hs'.high = Reg(Cur).last_4h_high
            /\ CurPrice >= Reg(Cur).last_4h_high
            /\ Reg(Cur)'.break_sent_for_4h = Reg(Cur)'.last_4h_closed_open
       /\ SellStep =>
            /\ Truthy(Reg(Cur).last_15m_low)
            /\ CurPrice < Reg(Cur).last_15m_low]_vars

\* handle_signals is suspended in the NEAR branch, a rearm has replaced the
\* epoch and the level of its snapshot, and the price is at or above the new
\* level
C20_Witness ==
    /\ pc["P"] = "await_near_photo"
    /\ hs.open # Reg(Cur).last_4h_closed_open
    /\ hs.high # Reg(Cur).last_4h_high
    /\ CurPrice >= Reg(Cur).last_4h_high

\* A step in which the SELL photo is handed to tg_send_photo
SellPhotoStep == pc["P"] = "await_sell_klines" /\ pc'["P"] = "await_sell_photo"

\* C18: also across crashes and restarts from STATE_FILE, no NEAR, BREAK or
\* SELL photo is sent that was already sent for the same symbol and epoch
\* (for SELL: the epoch of its break).
C18_NoResendAfterRestart ==
    [][/\ NearPhotoStep => <<Cur, "NEAR", hs.open>> \notin sentLog
       /\ BreakPhotoStep => <<Cur, "BREAK", hs.open>> \notin sentLog
       /\ SellPhotoStep =>
            <<Cur, "SELL", Reg(Cur).upmove_started_4h>> \notin sentLog]_vars

\* C19: with the process up and both loops running, a symbol that stays in
\* the universe and whose 4h fetch answers in full every time eventually has
\* last_4h_high set, whatever the fetches of its other intervals do.
C19_Eventually4hArmed == <>(~alive \/ Truthy(Reg("A").last_4h_high))

\* C21: a handle_signals call for a symbol that lacks any of last_4h_high,
\* last_4h_closed_open, last_1d_closed_open returns at once, whatever the
\* price: it takes no signal branch, sends nothing and leaves every field of
\* the symbol as it was.
C21_UnarmedNoOp ==
    [][Observing /\ ~Armed(Cur) =>
          /\ pc'["P"] \in {"hs", "sleep"}
          /\ sentLog' = sentLog
          /\ \A s \in AllSymbols : s = Cur => Reg(s)' = Reg(s)]_vars

\* The price loop has observed A before any kline of A was written and has
\* saved at the end of its tick: A's dict is in STATE_FILE with nothing set
C21_Witness ==
    /\ pc["P"] = "sleep"
    /\ "A" \in DOMAIN disk.symbols
    /\ disk.symbols["A"] = NewSymState


\* C22: a registration that on_message has saved and acknowledged stays in
\* STATE_FILE, with its last_muboh_ts, whatever a periodic_scan running at
\* the same time saves.
C22_RegistrationKept ==
    \A s \in MSyms :
        m_hist.ack[s] =>
            /\ s \in Keys(m_file)
            /\ m_file.symbols[s].last_muboh_ts = m_hist.reg[s]


\* C23: of the signals sent for a symbol, the first is a BUY, a SELL follows
\* a BUY and a BUY follows a SELL.
Alternating ==
    {<<"none", "none">>, <<"none", "BUY">>, <<"BUY", "SELL">>,
     <<"SELL", "BUY">>}

C23_BuySellAlternate == \A s \in MSyms : m_hist.sig[s] \in Alternating


\* C24: an on_message call for a symbol less than SYMBOL_COOLDOWN_MIN minutes
\* after the last registration of that symbol was saved leaves STATE_FILE as
\* it is and sends no acknowledgement; any later one stores a fresh active,
\* not bought state for the symbol and sends the acknowledgement.
SinceRegistered(s) == m_now - m_hist.reg[s]

C24_CooldownFrame ==
    [][\A s \in MSyms :
          OnMessage(RegView, s) =>
              IF SinceRegistered(s) < SYMBOL_COOLDOWN_MIN
              THEN m_file' = m_file /\ m_msg' = m_msg
              ELSE /\ s \in Keys(m_file')
                   /\ m_file'.symbols[s] = SymbolState(TRUE, m_now)
                   /\ m_msg' = s]_vars


\* C25: find_setup_levels returns a setup exactly when it gets at least
\* LOOKBACK_FOR_HIGH + 5 klines and at least MIN_PULLBACK_CANDLES of the
\* candles after the highest high of the window, up to the last closed one,
\* are pullback candles; the buy level of the setup is the high of the last
\* closed candle.
Qualifies(k) ==
    /\ Len(k) >= LOOKBACK_FOR_HIGH + 5
    /\ \E S \in SUBSET ((IdxHigh(k) + 1)..LastClosed(k)) :
          /\ Cardinality(S) >= MIN_PULLBACK_CANDLES
          /\ \A i \in S : IsPullback(k, i)

C25_SetupIffPullback ==
    fsl.done =>
        /\ fsl.out.found <=> Qualifies(kl)
        /\ fsl.out.found => fsl.out.buy_level = kl[LastClosed(kl)].high

====
